---- MODULE Spec2Model ----
(***************************************************************************)
(* Bot session lifecycle of the meeting bots (Google Meet, Teams, Zoom):   *)
(* join, record, monitor, leave and cleanup, with the participant tracker  *)
(* and the termination conditions.  One session is modelled; Init picks    *)
(* the platform controller that runs it.                                   *)
(*                                                                         *)
(* An action is one synchronous stretch of a handler, from one await to    *)
(* the next: JavaScript runs each stretch atomically and interleaves the   *)
(* stretches of run(), the tracker callbacks, the timers, the pollers and  *)
(* every endLife() invocation in any order.  A driver call (waitFor-       *)
(* Selector, click, evaluate) is an input: each outcome it can have is a   *)
(* choice of the action that follows the await.                            *)
(***************************************************************************)
EXTENDS Integers, Sequences, FiniteSets, TLC

(***************************************************************************)
(* Bounds of the model.  Time is counted in units of the clock; the three  *)
(* timeouts are the session's automaticLeave settings in those units.      *)
(***************************************************************************)
MaxTime == 4
EveryoneLeftTimeout == 1
InactivityTimeout == 1
MaxRoster == 3
MaxJoins == 2

\* `timeAloneStarted = Infinity`: never alone.  Larger than every instant.
Infinity == 99
\* `lastActivity = undefined` (Meet) or `null` (Teams): falsy, like no instant is
\* (the clock starts at 1).
Undefined == 0

Platforms == {"meet", "teams", "zoom"}
\* The invocations of endLife: by run() itself, by a timer or a poller (w1, w2),
\* by the caller after run() rejected.
Slots == {"run", "w1", "w2", "catch"}
Others == {"p1", "p2"}
\* Zoom: checkMeetingEnd (w1) and checkIfMeetingRunning (w2)
Pollers == {"w1", "w2"}
\* The participants the page can list under its merged-audio node.
MergedOthers == {"p1"}

VARIABLES
    platform,          \* which controller runs the session
    now,               \* Date.now()
    browser,           \* this.browser: "none" (undefined), "open", "closing", "closed"
    page,              \* this.page is set
    browserCloses,     \* calls of browser.close()
    leaveClickBy,      \* invocations that tried to click the leave control
    leaveFailed,       \* invocations whose click of leaveMeeting() / leave() threw
    rpc,               \* position of run()
    el,                \* position of each endLife() invocation
    caught,            \* the caller has handled run()'s rejection
    participants,      \* this.participants
    timeAloneStarted,  \* this.timeAloneStarted
    lastActivity,      \* this.lastActivity
    pendingLeave,      \* onParticipantLeave callbacks waiting on onEvent(PARTICIPANT_LEAVE)
    participantArray,  \* window.participantArray (ids the page script has announced)
    mergedAudioParticipantArray, \* window.mergedAudioParticipantArray
    observing,         \* the page script's observers are installed
    aloneSince,        \* instant since which the roster has had size 1 (Infinity: it has not)
    fewSince,          \* instant since which the roster seen has had size 0 or 1
    kicked,            \* this.kicked
    kickSignal,        \* the page shows a removal signal
    breakReason,       \* the termination condition that ended the monitor
    joinWait,          \* outcome of the bounded wait for the leave control
    ffmpegProcess,     \* this.ffmpegProcess: "null" or "alive"
    sigints,           \* SIGINTs sent to the encoder
    ended,             \* TeamsBot.ended
    file,              \* this.file: "none" (undefined or null) or "open"
    stream,            \* this.stream: "none", "live", "destroyed" (destroy() was called)
                       \* or "closed" (its close event was emitted)
    openStreams,       \* write streams on the recording path that are open
    timers,            \* the interval timers that are active
    pInterval,         \* this.participantsIntervalId
    aInterval,         \* this.activityIntervalId
    rejoinWatch,       \* checkForRejoining() is polling
    joins,             \* executions of joinProcedure()
    wpc,               \* position of each Zoom poller
    wssCloses,         \* calls of wss.close()
    frame,             \* Zoom: the meeting's iframe was found
    started,           \* startRecording() has started an encoder at least once
    orphans,           \* encoders still running that the controller no longer refers to
    stops,             \* stopRecording() calls made on the pipeline itself: their promises
    registeredActivityTimestamps, \* the activity timestamps of each speaker name, in
                       \* the order the names were first registered (Object.entries order)
    clockMs,           \* Date.now(), in milliseconds
    recordingBegan,    \* Date.now() when startRecording() ran
    observed,          \* the speech events of the page: who spoke, and when
    timeframes,        \* what getSpeakerTimeframes() returned
    folded,            \* getSpeakerTimeframes() has been called
    dpc,               \* position of deployImage()
    expose,            \* opts.expose of the call in progress
    thrown,            \* the try block of deployImage() was left by an exception
    deploys,           \* calls of deployImage() made
    writes,            \* temporary kubeconfig files written in full
    unlinks,           \* calls of fs.unlink(tempFilePath)
    tempFiles          \* temporary kubeconfig files on disk

drv == <<browser, page, browserCloses>>
ctl == <<rpc, el>>
call == <<caught>>
trk == <<participants, timeAloneStarted, pendingLeave, participantArray,
         mergedAudioParticipantArray, observing, aloneSince, fewSince>>
mon == <<kicked, kickSignal, breakReason, joinWait>>
lv == <<leaveClickBy, leaveFailed>>
enc == <<ffmpegProcess, sigints>>
cap == <<file, stream, openStreams>>
tms == <<timers, pInterval, aInterval>>
zoom == <<wpc, wssCloses, frame>>
rjn == <<rejoinWatch, joins>>
fold == <<registeredActivityTimestamps, clockMs, recordingBegan, observed, timeframes,
          folded>>
dep == <<dpc, expose, thrown, deploys, writes, unlinks, tempFiles>>
unit == <<started, orphans, stops, fold, dep>>

\* What the Meet controller leaves alone.
notMeet == <<platform, ended, cap, tms, rjn, zoom>>

\* What an endLife() invocation writes before its first await, and what no
\* cleanup step writes.
endv == <<el, ended, browser, browserCloses, file, stream, openStreams, timers, sigints>>
sess == <<platform, now, page, trk, lastActivity, mon, ffmpegProcess, pInterval, aInterval,
          rjn, wssCloses, frame>>

vars == <<platform, now, drv, lv, ctl, call, trk, lastActivity, mon, enc, ended,
          cap, tms, rjn, zoom, unit>>

----------------------------------------------------------------------------
(* Helpers *)

RECURSIVE Filter(_, _)
\* participants.filter((p) => p.id !== id)
Filter(s, id) ==
    IF s = <<>> THEN <<>>
    ELSE IF Head(s) = id THEN Filter(Tail(s), id)
         ELSE <<Head(s)>> \o Filter(Tail(s), id)

\* The instant since which a roster that goes from `old` to `new` has had size 1.
AloneSinceAfter(old, new) ==
    IF Len(new) # 1 THEN Infinity
    ELSE IF Len(old) = 1 THEN aloneSince ELSE now

\* The instant since which a roster that becomes `new` has had at most one entry.
FewSinceAfter(new) ==
    IF Len(new) > 1 THEN Infinity
    ELSE IF fewSince = Infinity THEN now ELSE fewSince

\* A driver call returns a result only while the browser is open.  Once close()
\* has been called a bounded wait can still run out on its own timer, until the
\* browser is gone; every other call on the page throws.
DriverUp == page /\ browser = "open"
DriverClosing == page /\ browser = "closing"

\* The monitor phase of run(): the session is InMeeting.
MonitorPcs == {"aloneCheck", "checkKicked", "popup", "popupClick", "sleep"}

----------------------------------------------------------------------------
\* The fields the constructor sets, and the model's own records.
Constructed ==
    /\ platform \in Platforms
    /\ now = 1
    /\ browserCloses = 0
    /\ leaveClickBy = {}
    /\ leaveFailed = {}
    /\ el = [s \in Slots |-> "idle"]
    /\ caught = FALSE
    /\ participants = <<>>
    /\ timeAloneStarted = Infinity
    /\ lastActivity = Undefined
    /\ pendingLeave = {}
    /\ participantArray = {}
    /\ mergedAudioParticipantArray = {}
    /\ observing = FALSE
    /\ aloneSince = Infinity
    /\ fewSince = Infinity
    /\ kicked = FALSE
    /\ kickSignal = FALSE
    /\ breakReason = "none"
    /\ joinWait = "pending"
    /\ ffmpegProcess = "null"
    /\ sigints = 0
    /\ ended = FALSE
    /\ file = "none"
    /\ stream = "none"
    /\ openStreams = 0
    /\ timers = IF platform = "teams" THEN {"ctorP", "ctorA"} ELSE {}
    /\ pInterval = IF platform = "teams" THEN "ctorP" ELSE "none"
    /\ aInterval = IF platform = "teams" THEN "ctorA" ELSE "none"
    /\ rejoinWatch = FALSE
    /\ joins = 0
    /\ wpc = [w \in Pollers |-> "off"]
    /\ wssCloses = 0
    /\ frame = FALSE
    /\ started = FALSE
    /\ orphans = 0
    /\ stops = <<>>
    /\ registeredActivityTimestamps = <<>>
    /\ observed = {}
    /\ timeframes = <<>>
    /\ folded = FALSE
    /\ dpc = "idle" /\ expose = FALSE /\ thrown = FALSE
    /\ deploys = 0 /\ writes = 0 /\ unlinks = 0 /\ tempFiles = 0

\* A controller before run(): no browser, no page.
Init ==
    /\ Constructed
    /\ clockMs = 0 /\ recordingBegan = 0
    /\ browser = "none"
    /\ page = FALSE
    /\ rpc = "init"

\* The clock is read by Meet's monitor loop and by the Teams timers.
Clocked ==
    \/ platform = "meet" /\ rpc \in MonitorPcs
    \/ platform = "teams" /\ pInterval \in timers /\ pInterval # "ctorP"

\* Time passes.
Tick ==
    /\ Clocked
    /\ now < MaxTime
    /\ now' = now + 1
    /\ UNCHANGED <<unit, platform, drv, lv, ctl, call, trk, lastActivity, mon, enc, ended,
                   cap, tms, rjn, zoom>>

----------------------------------------------------------------------------
(* Google Meet: MeetsBot.run() *)

\* launchBrowser(): chromium.launch, newContext, newPage; each may throw.
Meet_launchBrowser ==
    /\ platform = "meet" /\ rpc = "init"
    /\ \E r \in {"ok", "noPage", "noBrowser"} :
          /\ browser' = IF r = "noBrowser" THEN "none" ELSE "open"
          /\ page' = (r = "ok")
          /\ rpc' = IF r = "ok" THEN "prejoin" ELSE "rejErr"
    /\ UNCHANGED <<unit, notMeet, now, browserCloses, lv, el, call, trk,
                   lastActivity, mon, enc>>

\* joinMeeting() up to the click on the entry button: navigation, the name field,
\* the entry button.  Any of these waits may throw.
Meet_preJoin ==
    /\ platform = "meet" /\ rpc = "prejoin"
    /\ \E ok \in {TRUE, FALSE} \ (IF DriverUp THEN {} ELSE {TRUE}) :
          rpc' = IF ok THEN "awaitEntry" ELSE "rejErr"
    /\ UNCHANGED <<unit, notMeet, now, drv, lv, el, call, trk, lastActivity, mon, enc>>

\* joinMeeting(): waitForSelector(leaveButton, {timeout: waitingRoomTimeout}); whatever
\* it throws becomes WaitingRoomTimeoutError.
Meet_awaitEntry ==
    /\ platform = "meet" /\ rpc = "awaitEntry"
    /\ \E r \in (IF DriverUp THEN {"found", "timeout", "crash"} ELSE {"crash"}) :
          /\ joinWait' = r
          /\ rpc' = IF r = "found" THEN "startRec" ELSE "rejWRT"
    /\ UNCHANGED <<unit, notMeet, now, drv, lv, el, call, trk, lastActivity,
                   kicked, kickSignal, breakReason, enc>>

\* startRecording(): `if (this.ffmpegProcess) return`, else spawn('ffmpeg').
Meet_startRecording(p) == IF p = "null" THEN "alive" ELSE p

\* startRecording() as a step: the field, and what becomes of an encoder the field
\* referred to when another is spawned over it.
Meet_spawn ==
    /\ ffmpegProcess' = Meet_startRecording(ffmpegProcess)
    /\ started' = (started \/ ffmpegProcess' = "alive")
    /\ orphans' = IF ffmpegProcess = "alive" /\ ffmpegProcess' # ffmpegProcess
                  THEN orphans + 1 ELSE orphans

\* meetingActions(): startRecording() is called, handleInfoPopup() is awaited.
Meet_meetingActions ==
    /\ platform = "meet" /\ rpc = "startRec"
    /\ Meet_spawn
    /\ rpc' = "popup0"
    /\ UNCHANGED <<stops, fold, dep, notMeet, now, drv, lv, el, call, trk, lastActivity, mon,
                   sigints>>

\* handleInfoPopup() without its try/catch: a wait that fails is thrown on.
Meet_afterPopupWait_uncaught(r, pc) ==
    IF r = "found" THEN (IF pc = "popup0" THEN "popupClick0" ELSE "popupClick")
    ELSE "rejErr"

\* What handleInfoPopup() does with the outcome of its bounded wait: any failure
\* of the wait is caught and the function returns; a popup found is clicked.
Meet_afterPopupWait(r, pc) ==
    IF r = "found" THEN (IF pc = "popup0" THEN "popupClick0" ELSE "popupClick")
    ELSE IF pc = "popup0" THEN "inject" ELSE "sleep"

\* handleInfoPopup(timeout), first await: the wait for the popup, inside the try.
Meet_handleInfoPopup ==
    /\ platform = "meet" /\ rpc \in {"popup0", "popup"}
    /\ \E r \in (IF DriverUp THEN {"absent", "found"} ELSE {"absent"}) :
          rpc' = Meet_afterPopupWait(r, rpc)
    /\ UNCHANGED <<unit, notMeet, now, drv, lv, el, call, trk, lastActivity, mon, enc>>

\* handleInfoPopup(timeout), second await: the click on the popup found, outside
\* the try, so a click that throws leaves meetingActions() as an exception.
Meet_clickInfoPopup ==
    /\ platform = "meet" /\ rpc \in {"popupClick0", "popupClick"}
    /\ \E r \in (IF DriverUp THEN {"clicked", "clickThrows"} ELSE {"clickThrows"}) :
          rpc' = IF r = "clickThrows" THEN "rejErr"
                 ELSE IF rpc = "popupClick0" THEN "inject" ELSE "sleep"
    /\ UNCHANGED <<unit, notMeet, now, drv, lv, el, call, trk, lastActivity, mon, enc>>

\* The rosters the participants panel can show when the page script starts.
InitialRosters == {<<>>, <<"bot">>, <<"bot", "p1">>}

\* meetingActions(): the People button (its failure is caught), the four
\* exposeFunction calls and the page script, which announces the participants
\* already listed and installs the observers.  exposeFunction and evaluate
\* may throw.  A panel that is not found leaves the roster empty and unobserved.
Meet_injectTracker ==
    /\ platform = "meet" /\ rpc = "inject"
    /\ \/ /\ rpc' = "rejErr"
          /\ UNCHANGED trk
       \/ \E init \in InitialRosters :
             /\ DriverUp
             /\ participants' = init
             /\ participantArray' = {init[i] : i \in 1..Len(init)}
             /\ observing' = (init # <<>>)
             /\ aloneSince' = AloneSinceAfter(participants, init)
             /\ fewSince' = FewSinceAfter(init)
             /\ rpc' = "aloneCheck"
             /\ UNCHANGED <<timeAloneStarted, pendingLeave, mergedAudioParticipantArray>>
    /\ UNCHANGED <<unit, notMeet, now, drv, lv, el, call, lastActivity, mon, enc>>

\* Mutant of the comparison: the exit is taken as soon as the timeout is reached.
AloneTimedOut_early(t) == now - t >= EveryoneLeftTimeout

\* `msDiff > leaveMs` with msDiff = Date.now() - this.timeAloneStarted
AloneTimedOut(t) == now - t > EveryoneLeftTimeout

\* The monitor loop, top of an iteration: `if (this.participants.length === 1)`,
\* break when alone for longer than everyoneLeftTimeout; else checkKicked() is awaited.
Meet_aloneCheck ==
    /\ platform = "meet" /\ rpc = "aloneCheck"
    /\ IF Len(participants) = 1 /\ AloneTimedOut(timeAloneStarted)
       THEN /\ breakReason' = "alone"
            /\ rpc' = "leave"
       ELSE /\ rpc' = "checkKicked"
            /\ UNCHANGED breakReason
    /\ UNCHANGED <<unit, notMeet, now, drv, lv, el, call, trk, lastActivity,
                   kicked, kickSignal, joinWait, enc>>

\* checkKicked() without its first and third probe.
Meet_checkKicked_hiddenOnly(signal, hiddenThrows) == hiddenThrows

\* checkKicked(): the three probes.  count() that throws counts 0, isHidden()
\* that throws counts as hidden, isVisible() that throws counts as not visible.
Meet_checkKicked(signal, hiddenThrows) == signal \/ hiddenThrows

\* Mutant of the condition: the roster size is not looked at.
InactivityTimedOut_anySize ==
    /\ lastActivity # Undefined
    /\ now - lastActivity > InactivityTimeout

\* participants.length > 1 && lastActivity && Date.now() - lastActivity > inactivityTimeout
InactivityTimedOut ==
    /\ Len(participants) > 1
    /\ lastActivity # Undefined
    /\ now - lastActivity > InactivityTimeout

\* The monitor loop after the probes of checkKicked() have answered: kicked, or
\* the inactivity check, or handleInfoPopup(1000) is awaited.
Meet_kickedCheck ==
    /\ platform = "meet" /\ rpc = "checkKicked"
    /\ \E hiddenThrows \in (IF DriverUp THEN BOOLEAN ELSE {TRUE}) :
          IF Meet_checkKicked(kickSignal, hiddenThrows)
          THEN /\ kicked' = TRUE
               /\ breakReason' = "kicked"
               /\ rpc' = "leave"
          ELSE IF InactivityTimedOut
          THEN /\ breakReason' = "inactivity"
               /\ rpc' = "leave"
               /\ UNCHANGED kicked
          ELSE /\ rpc' = "popup"
               /\ UNCHANGED <<kicked, breakReason>>
    /\ UNCHANGED <<unit, notMeet, now, drv, lv, el, call, trk, lastActivity,
                   kickSignal, joinWait, enc>>

\* `await setTimeout(5000)`
Meet_sleep ==
    /\ platform = "meet" /\ rpc = "sleep"
    /\ rpc' = "aloneCheck"
    /\ UNCHANGED <<unit, notMeet, now, drv, lv, el, call, trk, lastActivity, mon, enc>>

\* After the loop: `await this.leaveMeeting()`.
Meet_exitLoop ==
    /\ platform = "meet" /\ rpc = "leave"
    /\ rpc' = "cleanup"
    /\ el' = [el EXCEPT !["run"] = "leaveClick"]
    /\ UNCHANGED <<unit, notMeet, now, drv, lv, call, trk, lastActivity, mon, enc>>

\* leaveMeeting() and endLife() have returned: meetingActions() returns 0.
Meet_return ==
    /\ platform = "meet" /\ rpc = "cleanup" /\ el["run"] = "done"
    /\ rpc' = "resolved"
    /\ UNCHANGED <<unit, notMeet, now, drv, lv, el, call, trk, lastActivity, mon, enc>>

----------------------------------------------------------------------------
(* Google Meet: the tracker callbacks the page script calls *)

\* The callbacks are followed while the monitor loop runs: what they write is
\* read by the loop only.
Tracking == observing /\ DriverUp /\ rpc \in MonitorPcs

\* The page script sees a participant node added whose id it has not announced:
\* window.onParticipantJoin(participant), a push onto this.participants.
Meet_onParticipantJoin ==
    /\ platform = "meet" /\ Tracking
    /\ Len(participants) < MaxRoster
    /\ \E id \in Others \ participantArray :
          /\ participants' = Append(participants, id)
          /\ participantArray' = participantArray \cup {id}
          /\ aloneSince' = AloneSinceAfter(participants, participants')
          /\ fewSince' = FewSinceAfter(participants')
    /\ UNCHANGED <<unit, notMeet, now, drv, lv, ctl, call, timeAloneStarted,
                   pendingLeave, mergedAudioParticipantArray, observing, lastActivity,
                   mon, enc>>

\* The page script sees the node of an announced participant removed:
\* window.onParticipantLeave(participant), which first awaits
\* onEvent(PARTICIPANT_LEAVE).
Meet_onParticipantLeave ==
    /\ platform = "meet" /\ Tracking
    /\ \E id \in participantArray \ {"bot"} :
          /\ pendingLeave' = pendingLeave \cup {id}
          /\ participantArray' = participantArray \ {id}
    /\ UNCHANGED <<unit, notMeet, now, drv, lv, ctl, call, participants,
                   timeAloneStarted, mergedAudioParticipantArray, observing, aloneSince,
                   fewSince, lastActivity, mon, enc>>

\* `this.participants.length === 1 ? Date.now() : Infinity`
Meet_aloneStart(roster) == IF Len(roster) = 1 THEN now ELSE Infinity

\* onParticipantLeave after onEvent() resolved: the filter and the alone-start
\* instant.  When onEvent() rejects, the callback ends there.
Meet_onParticipantLeave_resume ==
    /\ platform = "meet" /\ rpc \in MonitorPcs
    /\ \E id \in pendingLeave :
          /\ pendingLeave' = pendingLeave \ {id}
          /\ \/ /\ participants' = Filter(participants, id)
                /\ timeAloneStarted' = Meet_aloneStart(participants')
                /\ aloneSince' = AloneSinceAfter(participants, participants')
                /\ fewSince' = FewSinceAfter(participants')
             \/ UNCHANGED <<participants, timeAloneStarted, aloneSince, fewSince>>
    /\ UNCHANGED <<unit, notMeet, now, drv, lv, ctl, call, participantArray,
                   mergedAudioParticipantArray, observing, lastActivity, mon, enc>>

RECURSIVE AppendAll(_, _)
\* onParticipantJoin() for each participant of S in turn: a push for each.
AppendAll(s, S) ==
    IF S = {} THEN s
    ELSE LET x == CHOOSE y \in S : TRUE IN AppendAll(Append(s, x), S \ {x})

\* handleMergedAudio(): the page script compares the participants D listed under
\* the merged-audio node with window.mergedAudioParticipantArray.  More listed:
\* every one it has not recorded there is announced with onParticipantJoin(),
\* whether or not window.participantArray holds it.  Fewer listed: every one that
\* is gone is dropped, and announced with onParticipantLeave() when it has no
\* video tile either.
Meet_handleMergedAudio ==
    /\ platform = "meet" /\ Tracking
    /\ \E D \in SUBSET MergedOthers :
          LET M == mergedAudioParticipantArray IN
          \/ /\ Cardinality(D) > Cardinality(M)
             /\ Len(participants) + Cardinality(D \ M) <= MaxRoster
             /\ mergedAudioParticipantArray' = M \cup D
             /\ participants' = AppendAll(participants, D \ M)
             /\ participantArray' = participantArray \cup (D \ M)
             /\ UNCHANGED pendingLeave
          \/ /\ Cardinality(D) < Cardinality(M)
             /\ mergedAudioParticipantArray' = M \cap D
             /\ \E left \in SUBSET (M \ D) :
                   /\ pendingLeave' = pendingLeave \cup left
                   /\ participantArray' = participantArray \ left
             /\ UNCHANGED participants
    /\ aloneSince' = AloneSinceAfter(participants, participants')
    /\ fewSince' = FewSinceAfter(participants')
    /\ UNCHANGED <<unit, notMeet, now, drv, lv, ctl, call, timeAloneStarted, observing,
                   lastActivity, mon, enc>>

\* window.registerParticipantSpeaking(participant): `this.lastActivity = Date.now()`
Meet_registerParticipantSpeaking ==
    /\ platform = "meet" /\ Tracking
    /\ participantArray # {}
    /\ lastActivity' = now
    /\ UNCHANGED <<unit, notMeet, now, drv, lv, ctl, call, trk, mon, enc>>

\* The meeting removes the bot: the page shows a removal signal from now on.
Meet_removed ==
    /\ platform = "meet" /\ rpc \in MonitorPcs /\ DriverUp
    /\ ~kickSignal
    /\ kickSignal' = TRUE
    /\ UNCHANGED <<unit, notMeet, now, drv, lv, ctl, call, trk, lastActivity,
                   kicked, breakReason, joinWait, enc>>

----------------------------------------------------------------------------
(* Google Meet: leaveMeeting(), endLife(), stopRecording() *)

\* Mutants of the guard: the browser is never closed; close() is called on a
\* browser that was never launched.
Meet_hasBrowser_never(b) == FALSE
Meet_hasBrowser_always(b) == TRUE

\* endLife(): `if (this.browser)`
Meet_hasBrowser(b) == b # "none"

\* endLife() after stopRecording() resolved, for the invocations S that waited on
\* it: `if (this.browser) await this.browser.close()`.  close() on undefined
\* would be a TypeError.
Meet_closeBrowser(S) ==
    IF S = {} THEN UNCHANGED <<el, browser, browserCloses>>
    ELSE IF Meet_hasBrowser(browser)
    THEN IF browser = "none"
         THEN /\ el' = [s \in Slots |-> IF s \in S THEN "threw" ELSE el[s]]
              /\ UNCHANGED <<browser, browserCloses>>
         ELSE /\ browserCloses' = browserCloses + Cardinality(S)
              /\ browser' = IF browser = "open" THEN "closing" ELSE browser
              /\ el' = [s \in Slots |-> IF s \in S THEN "closing" ELSE el[s]]
    ELSE /\ el' = [s \in Slots |-> IF s \in S THEN "done" ELSE el[s]]
         /\ UNCHANGED <<browser, browserCloses>>

\* resolve(1): no recording in progress, or the encoder exited with an error.
NothingToStop == "1"

\* Mutants of the early exit: the promise waits for an exit event that cannot
\* come; the status differs from one call to the next.
Meet_stopRecording_waits(p) == "pending"
Meet_stopRecording_alternates(p) ==
    IF p = "null" THEN (IF Len(stops) % 2 = 0 THEN NothingToStop ELSE "0") ELSE "pending"

\* stopRecording(), the state of its promise when the executor returns:
\* `if (!this.ffmpegProcess) resolve(1)`, else it is pending (SIGINT was sent and
\* the exit handler will resolve it).
Meet_stopRecording(p) == IF p = "null" THEN NothingToStop ELSE "pending"

\* endLife() up to its first suspension.  stopRecording(): without an encoder it
\* resolves 1 at once and endLife goes on to the browser; else SIGINT, and the
\* promise waits for the encoder's exit event.
Meet_endLife(s) ==
    /\ IF Meet_stopRecording(ffmpegProcess) # "pending"
       THEN /\ Meet_closeBrowser({s})
            /\ UNCHANGED sigints
       ELSE /\ sigints' = sigints + 1
            /\ el' = [el EXCEPT ![s] = "waitExit"]
            /\ UNCHANGED <<browser, browserCloses>>
    /\ UNCHANGED <<ended, file, stream, openStreams, timers>>

\* leaveMeeting(): `page.click(leaveButton, {timeout: 1000})` in a try whose catch
\* only logs; then endLife().
Meet_leaveMeeting(s) ==
    /\ platform = "meet" /\ el[s] = "leaveClick"
    /\ leaveClickBy' = leaveClickBy \cup {s}
    /\ \E clicked \in (IF DriverUp THEN BOOLEAN ELSE {FALSE}) :
          leaveFailed' = IF clicked THEN leaveFailed ELSE leaveFailed \cup {s}
    /\ Meet_endLife(s)
    /\ UNCHANGED <<unit, sess, rpc, caught, wpc>>

\* The encoder exits (after its SIGINT, or on its own): the exit handler of
\* startRecording() clears this.ffmpegProcess, the exit handlers of the pending
\* stopRecording() calls resolve them and each endLife() goes on to the browser.
Meet_ffmpegExit ==
    /\ platform = "meet" /\ ffmpegProcess = "alive"
    /\ ffmpegProcess' = "null"
    /\ Meet_closeBrowser({s \in Slots : el[s] = "waitExit"})
    /\ UNCHANGED <<unit, notMeet, now, page, lv, rpc, call, trk, lastActivity, mon,
                   sigints>>

\* browser.close() resolves: endLife() returns.
Meet_endLife_closed(s) ==
    /\ platform = "meet" /\ el[s] = "closing"
    /\ browser' = "closed"
    /\ el' = [el EXCEPT ![s] = "done"]
    /\ UNCHANGED <<unit, notMeet, now, page, browserCloses, lv, rpc, call, trk,
                   lastActivity, mon, enc>>

----------------------------------------------------------------------------
MeetNext ==
    \/ Meet_launchBrowser
    \/ Meet_preJoin
    \/ Meet_awaitEntry
    \/ Meet_meetingActions
    \/ Meet_handleInfoPopup
    \/ Meet_clickInfoPopup
    \/ Meet_injectTracker
    \/ Meet_aloneCheck
    \/ Meet_kickedCheck
    \/ Meet_sleep
    \/ Meet_exitLoop
    \/ Meet_return
    \/ Meet_onParticipantJoin
    \/ Meet_onParticipantLeave
    \/ Meet_onParticipantLeave_resume
    \/ Meet_handleMergedAudio
    \/ Meet_registerParticipantSpeaking
    \/ Meet_removed
    \/ Meet_ffmpegExit
    \/ \E s \in Slots : Meet_leaveMeeting(s)
    \/ \E s \in Slots : Meet_endLife_closed(s)

----------------------------------------------------------------------------
(* Teams: TeamsBot.run() *)

\* What the Teams actions below leave alone, besides what each names.
teamsRest == <<platform, pendingLeave, participantArray, mergedAudioParticipantArray, observing,
               kicked, kickSignal,
               ffmpegProcess, sigints, pInterval, aInterval, wpc, wssCloses, frame, caught>>

\* launchBrowser(): launch(), newPage(); each may throw.
Teams_launchBrowser ==
    /\ platform = "teams" /\ rpc = "init"
    /\ \E r \in {"ok", "noPage", "noBrowser"} :
          /\ browser' = IF r = "noBrowser" THEN "none" ELSE "open"
          /\ page' = (r = "ok")
          /\ rpc' = IF r = "ok" THEN "prejoin" ELSE "rejErr"
    /\ UNCHANGED <<unit, teamsRest, now, browserCloses, lv, el, participants,
                   timeAloneStarted, aloneSince, fewSince, lastActivity, breakReason, joinWait,
                   ended, cap, timers, rjn>>

\* joinMeeting(): goto and joinProcedure().  The wait for the name field and the
\* click on the join button may throw; after the click checkForRejoining() is
\* started and never awaited.
Teams_joinProcedure ==
    /\ platform = "teams" /\ rpc = "prejoin"
    /\ \E ok \in {TRUE, FALSE} \ (IF DriverUp THEN {} ELSE {TRUE}) :
          /\ rpc' = IF ok THEN "awaitEntry" ELSE "rejErr"
          /\ rejoinWatch' = ok
          /\ joins' = IF ok THEN joins + 1 ELSE joins
    /\ UNCHANGED <<unit, teamsRest, now, drv, lv, el, participants, timeAloneStarted,
                   aloneSince, fewSince, lastActivity, breakReason, joinWait, ended, cap, timers>>

\* joinMeeting(): waitForSelector(leaveButtonSelector, {timeout}); whatever it
\* throws becomes WaitingRoomTimeoutError.  When it resolves, run() creates the
\* recording file and clicks the People button.
Teams_awaitEntry ==
    /\ platform = "teams" /\ rpc = "awaitEntry"
    /\ \E r \in (IF DriverUp THEN {"found", "timeout", "crash"} ELSE {"crash"}) :
          /\ joinWait' = r
          /\ IF r = "found"
             THEN /\ rpc' = "people"
                  /\ file' = "open"
                  /\ openStreams' = openStreams + 1
             ELSE /\ rpc' = "rejWRT"
                  /\ UNCHANGED <<file, openStreams>>
    /\ UNCHANGED <<unit, teamsRest, now, drv, lv, el, participants, timeAloneStarted,
                   aloneSince, fewSince, lastActivity, breakReason, ended, stream, timers,
                   rjn>>

\* run(): the click on the People button and the wait for the attendees tree; either
\* may throw.  Then the first updateParticipants() is awaited.
Teams_openPeople ==
    /\ platform = "teams" /\ rpc = "people"
    /\ \E ok \in {TRUE, FALSE} \ (IF DriverUp THEN {} ELSE {TRUE}) :
          rpc' = IF ok THEN "firstPoll" ELSE "rejErr"
    /\ UNCHANGED <<unit, teamsRest, now, drv, lv, el, participants, timeAloneStarted,
                   aloneSince, fewSince, lastActivity, breakReason, joinWait, ended, cap, timers,
                   rjn>>

\* The rosters a poll of the attendees tree can return ([] when the tree is gone).
PolledRosters == {<<>>, <<"bot">>, <<"bot", "p1">>}

\* updateParticipants() stamping the instant at every poll that sees one or none.
Teams_aloneStart_restamps(roster, t) ==
    IF Len(roster) > 1 THEN Infinity ELSE now

\* updateParticipants(): `if (length > 1) Infinity; else if (=== Infinity) Date.now()`
Teams_aloneStart(roster, t) ==
    IF Len(roster) > 1 THEN Infinity
    ELSE IF t = Infinity THEN now ELSE t

\* leave() is called: it awaits the click on the leave button.  An invocation
\* whose earlier call has not returned is not followed a second time.
Teams_callLeave(s, due, reason) ==
    IF due
    THEN /\ el' = [el EXCEPT ![s] = IF el[s] \in {"idle", "done"} THEN "leaveTry" ELSE el[s]]
         /\ breakReason' = IF breakReason = "none" THEN reason ELSE breakReason
    ELSE UNCHANGED <<el, breakReason>>

\* updateParticipants() after page.evaluate answered with `roster`: the roster, the
\* alone-start instant, aloneCheck().
Teams_poll(roster) ==
    /\ participants' = roster
    /\ timeAloneStarted' = Teams_aloneStart(roster, timeAloneStarted)
    /\ aloneSince' = AloneSinceAfter(participants, roster)
    /\ fewSince' = FewSinceAfter(roster)
    /\ Teams_callLeave("w1", AloneTimedOut(timeAloneStarted'), "alone")

\* run(): the first updateParticipants() returns (an evaluate that throws is logged);
\* the two intervals are set, lastActivity = Date.now(), startRecording() is awaited.
Teams_firstPoll ==
    /\ platform = "teams" /\ rpc = "firstPoll"
    /\ \/ \E roster \in PolledRosters : DriverUp /\ Teams_poll(roster)
       \/ UNCHANGED <<participants, timeAloneStarted, aloneSince, fewSince, el, breakReason>>
    /\ timers' = timers \cup {"runP", "runA"}
    /\ pInterval' = "runP"
    /\ aInterval' = "runA"
    /\ lastActivity' = now
    /\ rpc' = "startRec"
    /\ UNCHANGED <<unit, platform, pendingLeave, participantArray, mergedAudioParticipantArray,
                   observing, kicked, kickSignal, ffmpegProcess, sigints, wpc, wssCloses,
                   frame, caught, now, drv, lv, joinWait, ended, cap, rjn>>

\* startRecording() after getStream() returned: this.stream and this.file are
\* assigned, whatever they referred to; a stream that was live stays live.
Teams_startStream ==
    /\ stream' = "live"
    /\ file' = "open"
    /\ openStreams' = openStreams + 1
    /\ started' = TRUE
    /\ orphans' = IF stream = "live" THEN orphans + 1 ELSE orphans

\* startRecording(): getStream may throw; else the stream is piped into a new
\* write stream on the recording path.  Then checkForMeetingEnded() is awaited.
Teams_startRecording ==
    /\ platform = "teams" /\ rpc = "startRec"
    /\ \E ok \in {TRUE, FALSE} \ (IF DriverUp THEN {} ELSE {TRUE}) :
          IF ok
          THEN /\ Teams_startStream
               /\ rpc' = "watchEnd"
          ELSE /\ rpc' = "rejErr"
               /\ UNCHANGED <<cap, started, orphans>>
    /\ UNCHANGED <<stops, fold, dep, teamsRest, now, drv, lv, el, participants, timeAloneStarted,
                   aloneSince, fewSince, lastActivity, breakReason, joinWait, ended, timers,
                   rjn>>

\* Mutant of the guard: endLife() returns at once, whatever it has done before.
Teams_alreadyEnded_always(e) == TRUE

\* endLife(): `if (this.ended) return`
Teams_alreadyEnded(e) == e

\* endLife() after the leave click: the file is closed and forgotten, the two
\* intervals the fields name are cleared, stopRecording() destroys the stream,
\* `if (this.browser) await this.browser.close()`.
Teams_endLife_rest(s) ==
    /\ file' = "none"
    /\ openStreams' = IF file = "open" THEN openStreams - 1 ELSE openStreams
    /\ timers' = timers \ {pInterval, aInterval}
    /\ stream' = IF stream = "live" THEN "destroyed" ELSE stream
    /\ IF browser # "none"
       THEN /\ browserCloses' = browserCloses + 1
            /\ browser' = IF browser = "open" THEN "closing" ELSE browser
            /\ el' = [el EXCEPT ![s] = "closing"]
       ELSE /\ el' = [el EXCEPT ![s] = "done"]
            /\ UNCHANGED <<browser, browserCloses>>

\* endLife() up to its first suspension: the `ended` guard, then the click on the
\* leave button inside a try.  Without a page the click is a TypeError the catch
\* swallows, and endLife() goes on at once.
Teams_endLife(s) ==
    /\ UNCHANGED sigints
    /\ IF Teams_alreadyEnded(ended)
       THEN /\ el' = [el EXCEPT ![s] = "done"]
            /\ UNCHANGED <<ended, browser, browserCloses, file, stream, openStreams, timers>>
       ELSE /\ ended' = TRUE
            /\ IF page
               THEN /\ el' = [el EXCEPT ![s] = "leaveClick"]
                    /\ UNCHANGED <<browser, browserCloses, file, stream, openStreams, timers>>
               ELSE Teams_endLife_rest(s)

\* checkForMeetingEnded(): the leave button is not found within 2000 ms (or the wait
\* throws): run() logs, calls endLife() without awaiting it, and returns.
Teams_checkForMeetingEnded ==
    /\ platform = "teams" /\ rpc = "watchEnd"
    /\ rpc' = "resolved"
    /\ Teams_endLife("run")
    /\ UNCHANGED <<unit, sess, lv, caught, wpc>>

\* The participants interval fires: updateParticipants(); an evaluate that throws is
\* logged.
Teams_updateParticipants ==
    /\ platform = "teams" /\ pInterval \in timers /\ pInterval # "ctorP"
    /\ \E roster \in PolledRosters : DriverUp /\ Teams_poll(roster)
    /\ UNCHANGED <<unit, teamsRest, now, drv, lv, rpc, lastActivity, joinWait, ended,
                   cap, timers, rjn>>

\* The activity interval fires: checkActivity().  Activity seen stamps lastActivity;
\* else the inactivity condition may call leave().
Teams_checkActivity ==
    /\ platform = "teams" /\ aInterval \in timers /\ aInterval # "ctorA"
    /\ DriverUp
    /\ \E isActive \in BOOLEAN :
          IF isActive
          THEN /\ lastActivity' = now
               /\ UNCHANGED <<el, breakReason>>
          ELSE /\ Teams_callLeave("w2", InactivityTimedOut, "inactivity")
               /\ UNCHANGED lastActivity
    /\ UNCHANGED <<unit, teamsRest, now, drv, lv, rpc, participants, timeAloneStarted,
                   aloneSince, fewSince, joinWait, ended, cap, timers, rjn>>

\* leave() without the endLife() of its catch.
Teams_leaveEndsLife_never(clicked) == FALSE

\* Whether leave() calls endLife(): in the catch of its click.
Teams_leaveEndsLife(clicked) == ~clicked

\* leave() after its click: a click that succeeded ends leave(); one that threw
\* calls endLife().
Teams_leave(s) ==
    /\ platform = "teams" /\ el[s] = "leaveTry"
    /\ leaveClickBy' = leaveClickBy \cup {s}
    /\ \E clicked \in {TRUE, FALSE} \ (IF DriverUp THEN {} ELSE {TRUE}) :
          /\ leaveFailed' = IF clicked THEN leaveFailed ELSE leaveFailed \cup {s}
          /\ IF Teams_leaveEndsLife(clicked)
             THEN Teams_endLife(s)
             ELSE /\ el' = [el EXCEPT ![s] = "done"]
                  /\ UNCHANGED <<ended, browser, browserCloses, file, stream, openStreams,
                                 timers, sigints>>
    /\ UNCHANGED <<unit, sess, rpc, caught, wpc>>

\* endLife() after its click on the leave button returned or threw.
Teams_endLife_afterClick(s) ==
    /\ platform = "teams" /\ el[s] = "leaveClick"
    /\ leaveClickBy' = leaveClickBy \cup {s}
    /\ UNCHANGED leaveFailed
    /\ Teams_endLife_rest(s)
    /\ UNCHANGED <<unit, sess, rpc, caught, wpc, ended, sigints>>

\* browser.close() resolves: endLife() returns.
Teams_endLife_closed(s) ==
    /\ platform = "teams" /\ el[s] = "closing"
    /\ browser' = "closed"
    /\ el' = [el EXCEPT ![s] = "done"]
    /\ UNCHANGED <<unit, sess, rpc, caught, wpc, lv, ended, browserCloses, file,
                   stream, openStreams, timers, sigints>>

\* checkForRejoining(): the rejoin button of the call-ended screen is found within
\* its 2000 ms wait and clicked, and joinProcedure() is executed again, which
\* starts the next checkForRejoining().  (A wait that times out or throws starts
\* the next one at once.)  Nothing stops the watcher.
Teams_checkForRejoining ==
    /\ platform = "teams" /\ rejoinWatch /\ DriverUp
    /\ joinWait = "found"
    /\ joins < MaxJoins
    /\ joins' = joins + 1
    /\ UNCHANGED <<unit, teamsRest, now, drv, lv, ctl, participants,
                   timeAloneStarted, aloneSince, fewSince, lastActivity, breakReason, joinWait,
                   ended, cap, timers, rejoinWatch>>

TeamsNext ==
    \/ Teams_checkForRejoining
    \/ Teams_launchBrowser
    \/ Teams_joinProcedure
    \/ Teams_awaitEntry
    \/ Teams_openPeople
    \/ Teams_firstPoll
    \/ Teams_startRecording
    \/ Teams_checkForMeetingEnded
    \/ Teams_updateParticipants
    \/ Teams_checkActivity
    \/ \E s \in Slots : Teams_leave(s)
    \/ \E s \in Slots : Teams_endLife_afterClick(s)
    \/ \E s \in Slots : Teams_endLife_closed(s)

----------------------------------------------------------------------------
(* Zoom: ZoomBot.run() *)

\* What the Zoom actions below leave alone, besides what each names.
zoomRest == <<platform, now, participants, timeAloneStarted, pendingLeave, participantArray,
              mergedAudioParticipantArray,
              observing, aloneSince, fewSince, lastActivity, kicked, kickSignal, breakReason,
              ffmpegProcess, pInterval, aInterval, rjn, caught, lv>>

\* launchBrowser(): launch(), newPage(); each may throw.
Zoom_launchBrowser ==
    /\ platform = "zoom" /\ rpc = "init"
    /\ \E r \in {"ok", "noPage", "noBrowser"} :
          /\ browser' = IF r = "noBrowser" THEN "none" ELSE "open"
          /\ page' = (r = "ok")
          /\ rpc' = IF r = "ok" THEN "prejoin" ELSE "rejErr"
    /\ UNCHANGED <<unit, zoomRest, browserCloses, el, joinWait, ended, cap, timers, sigints, zoom>>

\* joinMeeting() up to the click on the join button: goto, the iframe and its
\* content frame, the controls inside it.  Without a content frame joinMeeting()
\* only logs and returns.
Zoom_preJoin ==
    /\ platform = "zoom" /\ rpc = "prejoin"
    /\ \E r \in (IF DriverUp THEN {"joined", "noFrame", "throws"} ELSE {"throws"}) :
          rpc' = CASE r = "joined" -> "awaitEntry"
                   [] r = "noFrame" -> "startRec"
                   [] r = "throws" -> "rejErr"
    /\ UNCHANGED <<unit, zoomRest, drv, el, joinWait, ended, cap, timers, sigints, zoom>>

\* joinMeeting(): frame.waitForSelector(leaveButton, {timeout: waitingRoomTimeout});
\* whatever it throws becomes WaitingRoomTimeoutError.
Zoom_awaitEntry ==
    /\ platform = "zoom" /\ rpc = "awaitEntry"
    /\ \E r \in (IF DriverUp THEN {"found", "timeout", "crash"} ELSE {"crash"}) :
          /\ joinWait' = r
          /\ rpc' = IF r = "found" THEN "startRec" ELSE "rejWRT"
    /\ UNCHANGED <<unit, zoomRest, drv, el, ended, cap, timers, sigints, zoom>>

\* startRecording() after getStream() returned: this.stream and this.file are
\* assigned, whatever they referred to.
Zoom_startStream ==
    /\ stream' = "live"
    /\ file' = "open"
    /\ openStreams' = openStreams + 1
    /\ started' = TRUE
    /\ orphans' = IF stream = "live" THEN orphans + 1 ELSE orphans

\* startRecording(): getStream may throw; else the stream is piped into a new
\* write stream.  Then run() waits for the iframe again.
Zoom_startRecording ==
    /\ platform = "zoom" /\ rpc = "startRec"
    /\ \E ok \in {TRUE, FALSE} \ (IF DriverUp THEN {} ELSE {TRUE}) :
          IF ok
          THEN /\ Zoom_startStream
               /\ rpc' = "iframe"
          ELSE /\ rpc' = "rejErr"
               /\ UNCHANGED <<cap, started, orphans>>
    /\ UNCHANGED <<stops, fold, dep, zoomRest, drv, el, joinWait, ended, timers, sigints, zoom>>

\* run(): the iframe and its content frame (which may be null); then both pollers
\* are started and raced.
Zoom_startPollers ==
    /\ platform = "zoom" /\ rpc = "iframe"
    /\ \E r \in (IF DriverUp THEN {"frame", "noFrame", "throws"} ELSE {"throws"}) :
          IF r = "throws"
          THEN /\ rpc' = "rejErr"
               /\ UNCHANGED <<wpc, frame>>
          ELSE /\ rpc' = "race"
               /\ frame' = (r = "frame")
               /\ wpc' = [w \in Pollers |-> "poll"]
    /\ UNCHANGED <<unit, zoomRest, drv, el, joinWait, ended, cap, timers, sigints, wssCloses>>

\* endLife() up to its first suspension: stopRecording() destroys the stream, the
\* file is closed and forgotten, `if (this.browser) await this.browser.close()`.
Zoom_endLife(s) ==
    /\ stream' = IF stream = "live" THEN "destroyed" ELSE stream
    /\ file' = "none"
    /\ openStreams' = IF file = "open" THEN openStreams - 1 ELSE openStreams
    /\ IF browser # "none"
       THEN /\ browserCloses' = browserCloses + 1
            /\ browser' = IF browser = "open" THEN "closing" ELSE browser
            /\ el' = [el EXCEPT ![s] = "closing"]
       ELSE /\ el' = [el EXCEPT ![s] = "done"]
            /\ UNCHANGED <<browser, browserCloses>>
    /\ UNCHANGED <<ended, timers, sigints>>

\* What a bounded driver call of a poller can answer: its results while the
\* browser is open, a TimeoutError until the browser is gone, another error always.
WaitOutcomes(results) ==
    IF DriverUp THEN results \cup {"timeout", "error"}
    ELSE IF DriverClosing THEN {"timeout", "error"} ELSE {"error"}

\* A poller settles its promise: the race, and with it run(), settles with the
\* first of the two.
Zoom_settle(w, outcome) ==
    /\ wpc' = [wpc EXCEPT ![w] = outcome]
    /\ rpc' = IF rpc # "race" THEN rpc
              ELSE IF outcome = "resolved" THEN "resolved" ELSE "rejErr"

\* checkMeetingEnd, poll(): the wait for the Ok button of the "meeting ended" dialog.
\* Found: it is clicked.  Not found within 1000 ms (TimeoutError), or no frame:
\* poll again in 1000 ms.  Another error rejects.
Zoom_checkMeetingEnd_poll ==
    /\ platform = "zoom" /\ wpc["w1"] = "poll"
    /\ \E r \in (IF ~frame THEN {"none"} ELSE WaitOutcomes({"found"})) :
          CASE r = "found" -> wpc' = [wpc EXCEPT !["w1"] = "click"] /\ UNCHANGED rpc
            [] r \in {"timeout", "none"} -> wpc' = [wpc EXCEPT !["w1"] = "sleep"] /\ UNCHANGED rpc
            [] r = "error" -> Zoom_settle("w1", "rejected")
    /\ UNCHANGED <<unit, zoomRest, drv, el, joinWait, ended, cap, timers, sigints, wssCloses,
                   frame>>

\* checkMeetingEnd after okButton.click(): stopRecording(), endLife() (not awaited),
\* resolve().  A click that throws goes to the catch like a failed wait.
Zoom_checkMeetingEnd_click ==
    /\ platform = "zoom" /\ wpc["w1"] = "click"
    /\ \E r \in WaitOutcomes({"clicked"}) :
          CASE r = "clicked" -> Zoom_settle("w1", "resolved") /\ Zoom_endLife("w1")
            [] r = "timeout" -> /\ wpc' = [wpc EXCEPT !["w1"] = "sleep"]
                                /\ UNCHANGED <<rpc, endv>>
            [] r = "error" -> Zoom_settle("w1", "rejected") /\ UNCHANGED endv
    /\ UNCHANGED <<unit, zoomRest, page, joinWait, wssCloses, frame>>

\* checkIfMeetingRunning, poll(): the wait for the leave button.  Found: poll again
\* in 60 s.  Not found within 700 ms (TimeoutError), or no frame: stopRecording(),
\* endLife() (not awaited), resolve().  Another error rejects.
Zoom_checkIfMeetingRunning_poll ==
    /\ platform = "zoom" /\ wpc["w2"] = "poll"
    /\ \E r \in (IF ~frame THEN {"none"} ELSE WaitOutcomes({"found"})) :
          CASE r = "found" -> /\ wpc' = [wpc EXCEPT !["w2"] = "sleep"]
                              /\ UNCHANGED <<rpc, endv>>
            [] r \in {"timeout", "none"} -> Zoom_settle("w2", "resolved") /\ Zoom_endLife("w2")
            [] r = "error" -> Zoom_settle("w2", "rejected") /\ UNCHANGED endv
    /\ UNCHANGED <<unit, zoomRest, page, joinWait, wssCloses, frame>>

\* setTimeout(poll, ...): the poller's next iteration starts.
Zoom_pollAgain(w) ==
    /\ platform = "zoom" /\ wpc[w] = "sleep"
    /\ wpc' = [wpc EXCEPT ![w] = "poll"]
    /\ UNCHANGED <<unit, zoomRest, drv, ctl, joinWait, ended, cap, timers, sigints,
                   wssCloses, frame>>

\* browser.close() resolves: `(await wss).close()`, endLife() returns.
Zoom_endLife_closed(s) ==
    /\ platform = "zoom" /\ el[s] = "closing"
    /\ browser' = "closed"
    /\ wssCloses' = wssCloses + 1
    /\ el' = [el EXCEPT ![s] = "done"]
    /\ UNCHANGED <<unit, zoomRest, page, browserCloses, rpc, joinWait, ended, cap, timers, sigints,
                   wpc, frame>>

ZoomNext ==
    \/ Zoom_launchBrowser
    \/ Zoom_preJoin
    \/ Zoom_awaitEntry
    \/ Zoom_startRecording
    \/ Zoom_startPollers
    \/ Zoom_checkMeetingEnd_poll
    \/ Zoom_checkMeetingEnd_click
    \/ Zoom_checkIfMeetingRunning_poll
    \/ \E w \in Pollers : Zoom_pollAgain(w)
    \/ \E s \in Slots : Zoom_endLife_closed(s)

----------------------------------------------------------------------------
(* The caller of the controller (the worker's entry point) *)

\* run() rejected: the caller catches the error and invokes endLife().
Caller_catch ==
    /\ rpc \in {"rejWRT", "rejErr"} /\ ~caught
    /\ caught' = TRUE
    /\ CASE platform = "meet" -> Meet_endLife("catch")
         [] platform = "teams" -> Teams_endLife("catch")
         [] platform = "zoom" -> Zoom_endLife("catch")
    /\ UNCHANGED <<unit, sess, lv, rpc, wpc>>

Next ==
    \/ Tick
    \/ Caller_catch
    \/ MeetNext
    \/ TeamsNext
    \/ ZoomNext

Spec == Init /\ [][Next]_vars

----------------------------------------------------------------------------
(* The capture pipeline on its own: startRecording(), stopRecording() and the *)
(* encoder's events in any order, on a controller whose browser is launched. *)

MaxCalls == 3

CapInit ==
    /\ Constructed
    /\ clockMs = 0 /\ recordingBegan = 0
    /\ browser = "open"
    /\ page = TRUE
    /\ rpc = "launched"

\* What the pipeline's calls leave alone.
capRest == <<platform, now, drv, lv, ctl, call, trk, lastActivity, mon, ended,
             tms, rjn, zoom, fold, dep>>

\* startRecording() is called.
Cap_start ==
    /\ orphans < MaxCalls
    /\ CASE platform = "meet" -> Meet_spawn /\ UNCHANGED cap
         [] platform = "teams" -> Teams_startStream /\ UNCHANGED ffmpegProcess
         [] platform = "zoom" -> Zoom_startStream /\ UNCHANGED ffmpegProcess
    /\ UNCHANGED <<capRest, sigints, stops>>

\* stopRecording() is called.  Meet: kill('SIGINT') when its promise is left
\* pending.  Teams and Zoom: `if (this.stream) this.stream.destroy()`, and the
\* async function returns.
Cap_stop ==
    /\ Len(stops) < MaxCalls
    /\ IF platform = "meet"
       THEN /\ stops' = Append(stops, Meet_stopRecording(ffmpegProcess))
            /\ sigints' = IF ffmpegProcess # "null" THEN sigints + 1 ELSE sigints
            /\ UNCHANGED stream
       ELSE /\ stops' = Append(stops, "returned")
            /\ stream' = IF stream = "live" THEN "destroyed" ELSE stream
            /\ UNCHANGED sigints
    /\ UNCHANGED <<capRest, ffmpegProcess, file, openStreams, started, orphans>>

\* The encoder exits with `code`: the exit handler of startRecording() clears the
\* field, the exit handler of every pending stopRecording() resolves it, 0 for
\* code 0 and 1 otherwise.
Cap_ffmpegExit ==
    /\ platform = "meet" /\ ffmpegProcess = "alive"
    /\ ffmpegProcess' = "null"
    /\ \E code \in {0, 1} :
          stops' = [i \in 1..Len(stops) |->
                       IF stops[i] # "pending" THEN stops[i]
                       ELSE IF code = 0 THEN "0" ELSE NothingToStop]
    /\ UNCHANGED <<capRest, sigints, cap, started, orphans>>

\* A destroyed capture stream emits its close event.
Cap_streamClose ==
    /\ stream = "destroyed"
    /\ stream' = "closed"
    /\ UNCHANGED <<capRest, enc, file, openStreams, unit>>

CapNext ==
    \/ Cap_start
    \/ Cap_stop
    \/ Cap_ffmpegExit
    \/ Cap_streamClose

CaptureSpec == CapInit /\ [][CapNext]_vars

----------------------------------------------------------------------------
(* The speaker timeframes on their own: registerParticipantSpeaking() for any *)
(* names at any instants, then getSpeakerTimeframes().                        *)

MaxStamps == 4
utteranceThresholdMs == 3000
MinUtteranceMs == 500

Speakers == {"ann", "bob"}
\* The participants by id; two of them share a display name.
SpeakerIds == {1, 2, 3}
DisplayName(id) == IF id = 2 THEN "bob" ELSE "ann"
\* Date.now() when the recording starts.
StartInstants == {1000}

\* `private recordingStartedAt: number = 0`: no statement assigns the field.
recordingStartedAt == 0
\* `const relativeTimestamp = Date.now() - this.recordingStartedAt`
Meet_relativeTimestamp(t) == t - recordingStartedAt
\* The time between one speech event and the next.
Gaps == {1, 500, 501, 2999, 3000}

\* The entry of `name` in the timestamps object, 0 when it has none.
EntryOf(reg, name) ==
    IF \E i \in 1..Len(reg) : reg[i].speakerName = name
    THEN CHOOSE i \in 1..Len(reg) : reg[i].speakerName = name
    ELSE 0

\* registerParticipantSpeaking(): the first timestamp of a name creates its array,
\* a later one is pushed.
Meet_registerTimestamp(reg, name, t) ==
    LET i == EntryOf(reg, name) IN
    IF i = 0 THEN Append(reg, [speakerName |-> name, stamps |-> <<t>>])
    ELSE [reg EXCEPT ![i].stamps = Append(@, t)]

\* Mutants of the two comparisons.
SameUtterance_inclusive(gap) == gap <= utteranceThresholdMs
LongEnough_inclusive(d) == d >= MinUtteranceMs

\* `currentTimeframe - end < utteranceThresholdMs`
SameUtterance(gap) == gap < utteranceThresholdMs
\* `end - start > 500`
LongEnough(d) == d > MinUtteranceMs

RECURSIVE FoldFrom(_, _, _, _, _, _)
\* The inner loop of getSpeakerTimeframes() from index i on, and the push after it.
FoldFrom(name, ts, i, start, end, out) ==
    IF i > Len(ts)
    THEN Append(out, [speakerName |-> name, start |-> start, end |-> end])
    ELSE IF SameUtterance(ts[i] - end)
    THEN FoldFrom(name, ts, i + 1, start, ts[i], out)
    ELSE FoldFrom(name, ts, i + 1, ts[i], ts[i],
                  IF LongEnough(end - start)
                  THEN Append(out, [speakerName |-> name, start |-> start, end |-> end])
                  ELSE out)

RECURSIVE FoldAll(_, _, _)
\* The outer loop over Object.entries(registeredActivityTimestamps).
FoldAll(reg, k, out) ==
    IF k > Len(reg) THEN out
    ELSE FoldAll(reg, k + 1,
                 FoldFrom(reg[k].speakerName, reg[k].stamps, 2,
                          reg[k].stamps[1], reg[k].stamps[1], out))

\* The comparator `a.start - b.start || a.end - b.end` is negative or zero.
NotAfter(a, b) == a.start < b.start \/ (a.start = b.start /\ a.end <= b.end)

RECURSIVE Insert(_, _)
\* x goes after every element it is not before: the sort is stable.
Insert(sorted, x) ==
    IF sorted = <<>> THEN <<x>>
    ELSE IF NotAfter(Head(sorted), x) THEN <<Head(sorted)>> \o Insert(Tail(sorted), x)
    ELSE <<x>> \o sorted

RECURSIVE SortTimeframes(_)
\* processedTimeframes.sort(...)
SortTimeframes(s) ==
    IF s = <<>> THEN <<>>
    ELSE Insert(SortTimeframes(SubSeq(s, 1, Len(s) - 1)), s[Len(s)])

getSpeakerTimeframes(reg) == SortTimeframes(FoldAll(reg, 1, <<>>))

RECURSIVE StampCount(_)
\* The timestamps registered, over all names.
StampCount(reg) ==
    IF reg = <<>> THEN 0 ELSE Len(Head(reg).stamps) + StampCount(Tail(reg))

FoldInit ==
    /\ Constructed
    /\ clockMs \in StartInstants /\ recordingBegan = clockMs
    /\ platform = "meet"
    /\ browser = "open"
    /\ page = TRUE
    /\ rpc = "monitor"

foldRest == <<platform, now, drv, lv, ctl, call, trk, lastActivity, mon, enc,
              ended, cap, tms, rjn, zoom, started, orphans, stops, dep>>

\* Some time passes and a participant is seen speaking.
Fold_registerParticipantSpeaking ==
    /\ ~folded
    /\ \E id \in SpeakerIds, gap \in Gaps :
          /\ clockMs' = clockMs + gap
          /\ observed' = observed \cup {[id |-> id, at |-> clockMs']}
          /\ registeredActivityTimestamps' =
                 Meet_registerTimestamp(registeredActivityTimestamps, DisplayName(id),
                                        Meet_relativeTimestamp(clockMs'))
    /\ StampCount(registeredActivityTimestamps) < MaxStamps
    /\ UNCHANGED <<foldRest, recordingBegan, timeframes, folded>>

\* getSpeakerTimeframes() is called.
Fold_getSpeakerTimeframes ==
    /\ ~folded
    /\ folded' = TRUE
    /\ timeframes' = getSpeakerTimeframes(registeredActivityTimestamps)
    /\ UNCHANGED <<foldRest, registeredActivityTimestamps, clockMs, recordingBegan, observed>>

FoldNext ==
    \/ Fold_registerParticipantSpeaking
    \/ Fold_getSpeakerTimeframes

FoldSpec == FoldInit /\ [][FoldNext]_vars

----------------------------------------------------------------------------
(* deployImage(): the temporary kubeconfig file.  Every call of the cluster  *)
(* API answers, answers 404, or throws another error.                        *)

MaxDeploys == 2

deployRest == <<platform, now, drv, lv, ctl, call, trk, lastActivity, mon, enc,
                ended, cap, tms, rjn, zoom, started, orphans, stops, fold>>

DeployInit ==
    /\ Constructed
    /\ clockMs = 0 /\ recordingBegan = 0
    /\ platform = "meet"
    /\ browser = "none"
    /\ page = FALSE
    /\ rpc = "init"

\* The outcomes of one call of the cluster API.
ApiOutcomes == {"ok", "notFound", "error"}

\* Leaving the try block without its finally: an exception goes to the caller.
Deploy_leaveTry_noFinally(threw) == IF threw THEN "rejected" ELSE "finally"

\* Leaving the try block, by its end or by an exception: the finally block.
Deploy_leaveTry(threw) == "finally"

\* After the workload (Job or Deployment) is in place: `if (expose)`.
Deploy_afterWorkload == IF expose THEN "readService" ELSE Deploy_leaveTry(FALSE)

\* deployImage(opts) is called: `await getKubeConfig()`, which may throw before
\* any file exists.
Deploy_getKubeConfig ==
    /\ dpc \in {"idle", "resolved", "rejected"}
    /\ deploys < MaxDeploys
    /\ deploys' = deploys + 1
    /\ thrown' = FALSE
    /\ \E e \in BOOLEAN, ok \in BOOLEAN :
          /\ expose' = e
          /\ dpc' = IF ok THEN "writeFile" ELSE "rejected"
    /\ UNCHANGED <<deployRest, writes, unlinks, tempFiles>>

\* `await fs.writeFile(tempFilePath, ...)`, before the try: a write that fails
\* rejects deployImage() and may leave a partial file.
Deploy_writeFile ==
    /\ dpc = "writeFile"
    /\ \/ /\ dpc' = "readWorkload"
          /\ writes' = writes + 1
          /\ tempFiles' = tempFiles + 1
       \/ /\ dpc' = "rejected"
          /\ \E left \in {0, 1} : tempFiles' = tempFiles + left
          /\ UNCHANGED writes
    /\ UNCHANGED <<deployRest, expose, thrown, deploys, unlinks>>

\* kc.loadFromFile() and the read of the Job / Deployment: found, 404, or
\* another error (a kubeconfig that does not load is one).
Deploy_readWorkload ==
    /\ dpc = "readWorkload"
    /\ \E r \in ApiOutcomes :
          /\ dpc' = CASE r = "ok" -> "replaceWorkload"
                      [] r = "notFound" -> "createWorkload"
                      [] r = "error" -> Deploy_leaveTry(TRUE)
          /\ thrown' = (r = "error")
    /\ UNCHANGED <<deployRest, expose, deploys, writes, unlinks, tempFiles>>

\* The replace, inside the same try as the read: a 404 goes to the create.
Deploy_replaceWorkload ==
    /\ dpc = "replaceWorkload"
    /\ \E r \in ApiOutcomes :
          /\ dpc' = CASE r = "ok" -> Deploy_afterWorkload
                      [] r = "notFound" -> "createWorkload"
                      [] r = "error" -> Deploy_leaveTry(TRUE)
          /\ thrown' = (r = "error")
    /\ UNCHANGED <<deployRest, expose, deploys, writes, unlinks, tempFiles>>

\* The create, in the catch: any failure leaves the try block.
Deploy_createWorkload ==
    /\ dpc = "createWorkload"
    /\ \E r \in ApiOutcomes :
          /\ dpc' = IF r = "ok" THEN Deploy_afterWorkload ELSE Deploy_leaveTry(TRUE)
          /\ thrown' = (r # "ok")
    /\ UNCHANGED <<deployRest, expose, deploys, writes, unlinks, tempFiles>>

\* The same for the Service, when the image is exposed.
Deploy_readService ==
    /\ dpc = "readService"
    /\ \E r \in ApiOutcomes :
          /\ dpc' = CASE r = "ok" -> "replaceService"
                      [] r = "notFound" -> "createService"
                      [] r = "error" -> Deploy_leaveTry(TRUE)
          /\ thrown' = (r = "error")
    /\ UNCHANGED <<deployRest, expose, deploys, writes, unlinks, tempFiles>>

Deploy_replaceService ==
    /\ dpc = "replaceService"
    /\ \E r \in ApiOutcomes :
          /\ dpc' = CASE r = "ok" -> Deploy_leaveTry(FALSE)
                      [] r = "notFound" -> "createService"
                      [] r = "error" -> Deploy_leaveTry(TRUE)
          /\ thrown' = (r = "error")
    /\ UNCHANGED <<deployRest, expose, deploys, writes, unlinks, tempFiles>>

Deploy_createService ==
    /\ dpc = "createService"
    /\ \E r \in ApiOutcomes :
          /\ dpc' = Deploy_leaveTry(r # "ok")
          /\ thrown' = (r # "ok")
    /\ UNCHANGED <<deployRest, expose, deploys, writes, unlinks, tempFiles>>

\* finally: `await fs.unlink(tempFilePath)` in a try whose catch warns; then
\* deployImage() resolves, or rejects with the exception that left the try.
Deploy_finally ==
    /\ dpc = "finally"
    /\ unlinks' = unlinks + 1
    /\ \E removed \in BOOLEAN :
          tempFiles' = IF removed THEN tempFiles - 1 ELSE tempFiles
    /\ dpc' = IF thrown THEN "rejected" ELSE "resolved"
    /\ UNCHANGED <<deployRest, expose, thrown, deploys, writes>>

DeployNext ==
    \/ Deploy_getKubeConfig
    \/ Deploy_writeFile
    \/ Deploy_readWorkload
    \/ Deploy_replaceWorkload
    \/ Deploy_createWorkload
    \/ Deploy_readService
    \/ Deploy_replaceService
    \/ Deploy_createService
    \/ Deploy_finally

DeploySpec == DeployInit /\ [][DeployNext]_vars

----------------------------------------------------------------------------
(* The Meet session under a fair schedule: a pending call of run() is resumed, *)
(* the interrupted encoder exits, browser.close() resolves.                   *)

MeetInit == Init /\ platform = "meet"

\* run(), the roster callbacks, the removal by the meeting, the encoder and the
\* cleanup; the page shows no merged-audio node.
MeetSteps ==
    \/ Tick
    \/ Caller_catch
    \/ Meet_launchBrowser
    \/ Meet_preJoin
    \/ Meet_awaitEntry
    \/ Meet_meetingActions
    \/ Meet_handleInfoPopup
    \/ Meet_clickInfoPopup
    \/ Meet_injectTracker
    \/ Meet_aloneCheck
    \/ Meet_kickedCheck
    \/ Meet_sleep
    \/ Meet_exitLoop
    \/ Meet_return
    \/ Meet_onParticipantJoin
    \/ Meet_onParticipantLeave
    \/ Meet_onParticipantLeave_resume
    \/ Meet_registerParticipantSpeaking
    \/ Meet_removed
    \/ Meet_ffmpegExit
    \/ \E s \in Slots : Meet_leaveMeeting(s)
    \/ \E s \in Slots : Meet_endLife_closed(s)

\* The encoder exits after its SIGINT.
Meet_ffmpegExitsAfterInterrupt == sigints > 0 /\ Meet_ffmpegExit

MeetLiveSpec ==
    /\ MeetInit /\ [][MeetSteps]_vars
    /\ WF_vars(Meet_kickedCheck)
    /\ WF_vars(Meet_exitLoop)
    /\ WF_vars(Meet_leaveMeeting("run"))
    /\ WF_vars(Meet_ffmpegExitsAfterInterrupt)
    /\ WF_vars(Meet_endLife_closed("run"))
    /\ WF_vars(Meet_return)

----------------------------------------------------------------------------
(* The claims *)

SlotThrew == \E s \in Slots : el[s] = "threw"
RunRejected == rpc \in {"rejWRT", "rejErr"}
\* run() has returned, or the caller has handled its rejection.
Terminated == rpc = "resolved" \/ (RunRejected /\ caught)
\* An invocation of leave(), leaveMeeting() or endLife() has not returned yet.
InFlight == \E s \in Slots : el[s] \in {"leaveTry", "leaveClick", "waitExit", "closing"}
\* endLife() has been entered (Teams: past its guard).
EndLifeInvoked ==
    CASE platform = "meet" -> \E s \in Slots : el[s] \in {"waitExit", "closing", "done"}
      [] platform = "teams" -> ended
      [] platform = "zoom" -> browserCloses >= 1

\* C1: when the monitor detects the removal signal while the roster holds other
\* participants, the session ends as Kicked, the leave control is never clicked,
\* and once run() has returned the encoder is stopped and the browser closed.
C1_KickedSkipsLeave ==
    (kicked /\ Len(participants) > 1) =>
        /\ breakReason = "kicked"
        /\ leaveClickBy = {}
        /\ (rpc = "resolved" => browser = "closed" /\ ffmpegProcess = "null")

C3_NoDestructiveStepTwice ==
    /\ browserCloses <= 1
    /\ wssCloses <= 1
    /\ sigints <= 1
    /\ ~SlotThrew

\* C4: cleanup on a partially initialized session neither throws nor waits: with
\* no browser every invocation has returned as soon as it is made, and without a
\* capture no invocation waits for an encoder's exit.
C4_CleanupOnPartialState ==
    \A s \in Slots :
        /\ el[s] # "threw"
        /\ browser = "none" => el[s] \in {"idle", "done"}
        /\ (ffmpegProcess = "null" /\ sigints = 0) => el[s] # "waitExit"

\* C4 witness: endLife has returned on a session whose browser never launched.
C4_Witness == browser = "none" /\ el["catch"] = "done" /\ stream = "none" /\ sigints = 0

\* C5: when the wait for the leave control times out, run() is rejected with
\* WaitingRoomTimeoutError, no capture is ever started, the monitor never runs, and
\* the leave control is never clicked.
C5_WaitingRoomTimeout ==
    joinWait = "timeout" =>
        /\ rpc = "rejWRT"
        /\ ffmpegProcess = "null" /\ sigints = 0 /\ stream = "none"
        /\ breakReason = "none" /\ ~observing /\ participants = <<>>
        /\ leaveClickBy = {}

C8_AloneExitTaken ==
    [][(/\ rpc = "aloneCheck" /\ rpc' # "aloneCheck"
        /\ Len(participants) = 1
        /\ aloneSince # Infinity /\ now - aloneSince > EveryoneLeftTimeout)
       => breakReason' = "alone"]_vars

\* C9: the alone-start instant is set exactly when the roster goes from size 2 to
\* size 1, reset to never-alone exactly when it goes from 1 to 2, and nothing else
\* writes it.
C9_AloneStartTransitions ==
    [][LET n == Len(participants)
           m == Len(participants')
       IN  /\ (n = 2 /\ m = 1) => timeAloneStarted' = now
           /\ (n = 1 /\ m = 2) => timeAloneStarted' = Infinity
           /\ ~(n = 2 /\ m = 1) /\ ~(n = 1 /\ m = 2)
                 => timeAloneStarted' = timeAloneStarted]_vars

\* C10: a monitor tick at which the removal signal is showing and that ends the
\* session ends it as Kicked, with kicked recorded, and not for a timeout reason.
C10_KickedWinsTie ==
    [][(kickSignal /\ breakReason = "none" /\ breakReason' # "none")
          => (breakReason' = "kicked" /\ kicked')]_vars

----------------------------------------------------------------------------
(* Participant tracker: idempotence and uniqueness *)

\* The entries of roster s that carry id.
Count(s, id) == Cardinality({i \in 1..Len(s) : s[i] = id})

\* C11: a join callback for an id the roster already holds adds no entry: in no
\* step does the number of roster entries of an id that is already present grow,
\* whether the direct-tile path or the merged-audio path announced it.
C11_JoinTwiceKeepsSize ==
    [][\A id \in Others :
          Count(participants, id) > 0 =>
              Count(participants', id) <= Count(participants, id)]_vars

\* C12: a leave callback for an id the roster does not hold changes nothing: the
\* step that completes it leaves the roster, the alone-start instant and the
\* activity instant as they were.
C12_LeaveAbsentIsNoOp ==
    [][\A id \in pendingLeave :
          (id \notin pendingLeave' /\ Count(participants, id) = 0) =>
              UNCHANGED <<participants, timeAloneStarted, lastActivity>>]_vars

\* C13: in every reachable state no two roster entries share an id.
C13_RosterIdsUnique ==
    \A i, j \in 1..Len(participants) :
        participants[i] = participants[j] => i = j

----------------------------------------------------------------------------
(* Inactivity timeout *)

\* C14: the session never ends for the inactivity-timeout in a tick in which the
\* roster has size 1 or less: the step that ends the monitor for inactivity, and
\* the step in which the Teams activity timer calls leave(), see a roster of more
\* than one entry.
C14_InactivityNeedsCompany ==
    [][(\/ breakReason # "inactivity" /\ breakReason' = "inactivity"
        \/ platform = "teams" /\ el["w2"] # "leaveTry" /\ el'["w2"] = "leaveTry")
       => Len(participants) > 1]_vars

\* C14 witness: a session that ended for inactivity with company in the roster.
C14_Witness ==
    /\ breakReason = "inactivity"
    /\ Len(participants) > 1
    /\ now - lastActivity > InactivityTimeout

\* The time without detected speech: since the last speech or, when nobody has
\* spoken yet, since the bot joined (the clock reads 1 then).
Silence == now - (IF lastActivity = Undefined THEN 1 ELSE lastActivity)

\* C15: a session in the meeting with more than one roster entry and no speech
\* detected for longer than inactivityTimeout leaves, also when nobody has spoken
\* since the bot joined: no monitor tick that finds that goes on to another
\* iteration.
C15_InactivityExitTaken ==
    [][(/\ platform = "meet" /\ rpc = "checkKicked" /\ rpc' = "popup"
        /\ Len(participants) > 1)
       => ~(Silence > InactivityTimeout)]_vars

----------------------------------------------------------------------------
(* Capture pipeline *)

\* C16: the session does not report success while the recording artifact is
\* unsealed: once run() has resolved, the encoder or the capture stream has
\* terminated and the file handle is closed.
C16_ResolvedMeansSealed ==
    rpc = "resolved" =>
        /\ ffmpegProcess = "null"
        /\ stream # "live"
        /\ file # "open"

\* The encoder instances alive: the one the controller refers to, and those it
\* has lost the reference to.
EncodersAlive ==
    orphans + (IF ffmpegProcess = "alive" THEN 1 ELSE 0) + (IF stream = "live" THEN 1 ELSE 0)

\* C17: start() is idempotent: after any sequence of start(), stop() and
\* encoder-exit events at most one encoder instance (ffmpeg process, or capture
\* stream with its file) is alive.
C17_AtMostOneEncoder == EncodersAlive <= 1

\* C18: graceful stop() signals the encoder first and resolves only after the
\* encoder's exit event: a call left pending has sent its SIGINT, and in the step in
\* which a call resolves the encoder process is gone and the capture stream is
\* neither live nor still closing.
C18_StopWaitsForExit ==
    [][\A i \in 1..Len(stops') :
          /\ (i > Len(stops) /\ stops'[i] = "pending") => sigints' = sigints + 1
          /\ (stops'[i] # "pending" /\ (i > Len(stops) \/ stops[i] = "pending"))
                => (ffmpegProcess' = "null" /\ stream' \notin {"live", "destroyed"})]_vars

\* C19: stop() on a pipeline whose encoder was never started resolves at once with
\* the nothing-to-stop status: no signal is sent and no call is left waiting.
C19_StopWithoutStart ==
    ~started =>
        /\ sigints = 0
        /\ \A i \in 1..Len(stops) :
              /\ stops[i] # "pending"
              /\ platform = "meet" => stops[i] = NothingToStop

\* C19 witness: stop() was called on a Meet pipeline that was never started.
C19_Witness == platform = "meet" /\ ~started /\ Len(stops) > 0

\* C20: stop() is idempotent: a stop() starts no encoder, and once the encoder has
\* been started and has stopped, each call resolves at once with one and the same
\* status.
C20_StopIdempotent ==
    [][Len(stops') > Len(stops) =>
          /\ UNCHANGED <<ffmpegProcess, started, orphans>>
          /\ (platform = "meet" /\ started /\ ffmpegProcess = "null")
                => stops'[Len(stops')] = NothingToStop]_vars

\* C20 witness: a started encoder was stopped, and stop() was called twice more.
C20_Witness ==
    /\ platform = "meet" /\ started /\ ffmpegProcess = "null" /\ sigints = 1
    /\ Len(stops) = 3 /\ stops[1] = "0"
    /\ stops[2] = NothingToStop /\ stops[3] = NothingToStop

----------------------------------------------------------------------------
(* Speaker timeframes *)

\* The timestamps of the speaker of timeframe tf.
StampsOf(tf) ==
    registeredActivityTimestamps[EntryOf(registeredActivityTimestamps, tf.speakerName)].stamps

\* tf covers the timestamps lo..hi of ts, a run with every step shorter than the
\* utterance threshold that a gap of the threshold or more bounds on either side.
IsRun(tf, ts, lo, hi) ==
    /\ tf.start = ts[lo] /\ tf.end = ts[hi]
    /\ \A k \in lo..(hi - 1) : ts[k + 1] - ts[k] < utteranceThresholdMs
    /\ lo = 1 \/ ts[lo] - ts[lo - 1] >= utteranceThresholdMs
    /\ hi = Len(ts) \/ ts[hi + 1] - ts[hi] >= utteranceThresholdMs

\* C21: every timeframe getSpeakerTimeframes returns folds a run of its speaker's
\* consecutive timestamps that are less than 3000 ms apart and ends at a gap of
\* 3000 ms or more, and the list is sorted ascending by (start, end).
C21_FoldsAndSorts ==
    folded =>
        /\ \A i \in 1..Len(timeframes) :
              LET ts == StampsOf(timeframes[i]) IN
              \E lo \in 1..Len(ts) : \E hi \in lo..Len(ts) :
                  IsRun(timeframes[i], ts, lo, hi)
        /\ \A i \in 1..Len(timeframes) : \A j \in i..Len(timeframes) :
              NotAfter(timeframes[i], timeframes[j])

\* C21 witness: one speaker's timestamps were folded into a timeframe and split
\* at a gap of exactly the threshold, with another speaker's timeframe in between.
C21_Witness ==
    /\ folded /\ Len(timeframes) = 3
    /\ timeframes[1].speakerName = timeframes[3].speakerName
    /\ timeframes[2].speakerName # timeframes[1].speakerName
    /\ timeframes[1].end > timeframes[1].start
    /\ \E k \in 1..(Len(StampsOf(timeframes[1])) - 1) :
          StampsOf(timeframes[1])[k + 1] - StampsOf(timeframes[1])[k] = utteranceThresholdMs

\* The last timestamp of entry e.
LastStamp(e) == e.stamps[Len(e.stamps)]

\* C22: a folded timeframe is returned only if it lasts more than 500 ms or is
\* the last segment of its speaker, and the last segment of every speaker is
\* returned.
C22_ShortSegmentsDropped ==
    folded =>
        /\ \A i \in 1..Len(timeframes) :
              \/ timeframes[i].end - timeframes[i].start > MinUtteranceMs
              \/ timeframes[i].end =
                    LastStamp(registeredActivityTimestamps[
                        EntryOf(registeredActivityTimestamps, timeframes[i].speakerName)])
        /\ \A k \in 1..Len(registeredActivityTimestamps) :
              \E i \in 1..Len(timeframes) :
                  /\ timeframes[i].speakerName = registeredActivityTimestamps[k].speakerName
                  /\ timeframes[i].end = LastStamp(registeredActivityTimestamps[k])

\* C22 witness: a segment of exactly 500 ms that is not its speaker's last was
\* dropped, and a last segment of a single timestamp was returned.
C22_Witness ==
    /\ folded /\ Len(registeredActivityTimestamps) = 1 /\ Len(timeframes) = 1
    /\ LET ts == registeredActivityTimestamps[1].stamps IN
       /\ Len(ts) = 3
       /\ ts[2] - ts[1] = MinUtteranceMs
       /\ ts[3] - ts[2] >= utteranceThresholdMs
       /\ timeframes[1].start = ts[3] /\ timeframes[1].end = ts[3]

----------------------------------------------------------------------------
(* Join, end reason, watchers *)

\* C23: WaitingRoomTimeoutError is raised only when the bounded wait for the
\* joined signal ran out: a run() that rejected with it had its wait expire, and
\* not fail for a crashed browser or page.
C23_WaitingRoomOnlyOnExpiry ==
    rpc = "rejWRT" => joinWait = "timeout"

\* C24: the session is ended once: when one watcher (a Teams timer calling
\* leave(), a Zoom poller calling endLife()) has ended it, the other, firing later
\* or at the same time, does not end it a second time.
C24_EndedOnce ==
    el["w1"] = "idle" \/ el["w2"] = "idle"

\* C25: the session is in the meeting only after the joined signal: capture has
\* been started, or run() has got as far as starting it, only if the bounded wait
\* found the leave control.
C25_InMeetingAfterJoined ==
    (started \/ rpc = "startRec") => joinWait = "found"

\* C26: leaving is sequenced before cleanup: in no state is a click on the leave
\* control in flight while the browser is being closed.
C26_NoClickWhileClosing ==
    ~(/\ browser = "closing"
      /\ \E s \in Slots : el[s] \in {"leaveTry", "leaveClick"})

\* C27: once cleanup has started every watcher is cancelled or does nothing: no
\* poller goes on to another iteration, the rejoin watcher does not act on the
\* page, and no timer or poller invokes leave() or endLife() again.
C27_WatchersStopAtCleanup ==
    [][EndLifeInvoked =>
          /\ \A w \in Pollers : wpc'[w] = "poll" => wpc[w] = "poll"
          /\ joins' = joins
          /\ \A w \in Pollers : el[w] = "idle" => el'[w] = "idle"]_vars

\* C28: transitions go one way: after the bot has clicked the leave control, or
\* after cleanup has started, joinProcedure() is not executed again.
C28_NoRejoinAfterLeave ==
    [][(leaveClickBy # {} \/ EndLifeInvoked) => joins' = joins]_vars

\* C29: a monitor-phase probe that fails with an unexpected error (a crashed or
\* closed page rather than a missing element) is never read as a verdict: the
\* Meet loop breaks as Kicked only when a removal signal is on the page, and the
\* Teams end watcher concludes that the meeting ended only from a page that
\* still answers.
C29_UnexpectedProbeErrorIsFatal ==
    [][/\ (platform = "meet" /\ rpc = "checkKicked" /\ breakReason' = "kicked")
            => kickSignal
       /\ (platform = "teams" /\ rpc = "watchEnd" /\ rpc' = "resolved")
            => DriverUp]_vars

\* C30: in the Meet monitor loop a probe that does not find its element (the
\* kicked probes, the bounded wait for the info popup) never rejects run(), and
\* the loop goes on to its next step.
C30_TransientProbeFailureContained ==
    [][(platform = "meet" /\ rpc \in {"checkKicked", "popup"})
          => rpc' \in {"checkKicked", "popup", "popupClick", "sleep", "leave"}]_vars

\* The loop sleeps into a later tick after the kicked probes and the popup wait
\* found nothing.
C30_Witness ==
    /\ platform = "meet" /\ rpc = "sleep" /\ now > 1
    /\ ~kickSignal /\ breakReason = "none"

\* C31: a leave click that fails is not fatal.  The step in which the click of
\* leaveMeeting() (Meet) or leave() (Teams) throws does not reject run() and
\* reaches nobody's catch; it goes straight on into endLife(): on Meet the
\* encoder still running is interrupted, or else the browser is closed, and on
\* Teams the session is marked ended and cleanup runs in this or in an earlier
\* invocation.
C31_LeaveFailureNotFatal ==
    [][\A s \in Slots : (s \notin leaveFailed /\ s \in leaveFailed') =>
          /\ rpc' = rpc /\ caught' = caught
          /\ IF platform = "meet"
             THEN /\ el'[s] \in {"waitExit", "closing", "done"}
                  /\ ffmpegProcess = "alive" => sigints' = sigints + 1
                  /\ el'[s] = "done" => ~Meet_hasBrowser(browser)
             ELSE /\ ended'
                  /\ el'[s] \in {"leaveClick", "closing", "done"}]_vars

\* A leave click threw, and the invocation it belongs to has finished its
\* cleanup with the browser closed.
C31_Witness ==
    /\ leaveFailed # {}
    /\ \A s \in leaveFailed : el[s] = "done"
    /\ browser = "closed"

----------------------------------------------------------------------------
(* Activity timestamps *)

\* The observations behind the timestamps of entry e.
ObservedIn(e) ==
    {o \in observed : /\ DisplayName(o.id) = e.speakerName
                      /\ \E k \in 1..Len(e.stamps) :
                            e.stamps[k] = Meet_relativeTimestamp(o.at)}

\* C32: every activity timestamp registered is relative to the start of the
\* recording: it is the instant of an observation of that speaker minus the
\* instant at which the recording began.
C32_StampsRelativeToStart ==
    \A i \in 1..Len(registeredActivityTimestamps) :
        \A k \in 1..Len(registeredActivityTimestamps[i].stamps) :
            \E o \in observed :
                /\ DisplayName(o.id) = registeredActivityTimestamps[i].speakerName
                /\ registeredActivityTimestamps[i].stamps[k] = o.at - recordingBegan

\* C33: the timestamps of one activity sequence all come from one participant,
\* and so do the timestamps a returned timeframe spans.
C33_OneParticipantPerSequence ==
    /\ \A i \in 1..Len(registeredActivityTimestamps) :
          \A a, b \in ObservedIn(registeredActivityTimestamps[i]) : a.id = b.id
    /\ folded =>
          \A i \in 1..Len(timeframes) :
              \A a, b \in ObservedIn(registeredActivityTimestamps[
                              EntryOf(registeredActivityTimestamps,
                                      timeframes[i].speakerName)]) :
                  (/\ timeframes[i].start <= Meet_relativeTimestamp(a.at)
                   /\ Meet_relativeTimestamp(a.at) <= timeframes[i].end
                   /\ timeframes[i].start <= Meet_relativeTimestamp(b.at)
                   /\ Meet_relativeTimestamp(b.at) <= timeframes[i].end) => a.id = b.id

----------------------------------------------------------------------------
(* Roster callbacks, exit of the monitor loop *)

\* C34: a leave callback removes its participant from the roster whatever
\* becomes of the PARTICIPANT_LEAVE event: when the callback of a participant
\* ends, the roster no longer holds that participant.
C34_LeaveRemovesDespiteEvent ==
    [][\A id \in Others : (id \in pendingLeave /\ id \notin pendingLeave') =>
          \A k \in 1..Len(participants') : participants'[k] # id]_vars

\* C35: in the Meet monitor loop the tick that evaluates a removal signal that
\* is showing breaks the loop as kicked, and from there, the interrupted encoder
\* exiting, meetingActions() returns with the encoder gone and the browser
\* closed.
C35_KickedExitsAndCleansUp ==
    /\ [][(platform = "meet" /\ rpc = "checkKicked" /\ kickSignal /\ rpc' # rpc)
             => (rpc' = "leave" /\ breakReason' = "kicked")]_vars
    /\ (platform = "meet" /\ rpc = "checkKicked" /\ kickSignal)
          ~> (rpc = "resolved" /\ ffmpegProcess = "null" /\ browser = "closed")

\* The loop broke as kicked on a showing removal signal, the encoder was
\* interrupted, and meetingActions() has returned after the cleanup.
C35_Witness ==
    /\ platform = "meet" /\ rpc = "resolved" /\ kickSignal /\ breakReason = "kicked"
    /\ sigints > 0 /\ ffmpegProcess = "null" /\ browser = "closed"

----------------------------------------------------------------------------
(* Teams: what cleanup leaves behind *)

\* The endLife() of the Teams controller that passed the `ended` guard has
\* closed the browser and returned.
Teams_endLifeCompleted == platform = "teams" /\ ended /\ browser = "closed"

\* C36: after TeamsBot.endLife has completed, no interval timer the bot created,
\* in its constructor or in run(), is still active.
C36_NoTimerAfterEndLife ==
    Teams_endLifeCompleted => timers = {}

\* C37: after TeamsBot.endLife has completed, no write stream that run() or
\* startRecording() opened on the recording path is still open.
C37_NoOpenStreamAfterEndLife ==
    Teams_endLifeCompleted => openStreams = 0

\* C38: in the Teams controller a roster poll leaves the alone-start instant
\* finite exactly when the roster it polled has at most one participant, and a
\* poll that again sees at most one participant does not move a finite instant.
C38_AloneStartFollowsRoster ==
    [][platform = "teams" =>
          /\ (<<participants, timeAloneStarted>>' # <<participants, timeAloneStarted>>)
                => (timeAloneStarted' # Infinity <=> Len(participants') <= 1)
          /\ (timeAloneStarted # Infinity /\ Len(participants') <= 1)
                => timeAloneStarted' = timeAloneStarted]_vars

\* A later poll still saw at most one participant, kept the instant of the first
\* and found the alone timeout exceeded.
C38_Witness ==
    /\ platform = "teams" /\ breakReason = "alone"
    /\ Len(participants) <= 1
    /\ timeAloneStarted # Infinity
    /\ now - timeAloneStarted > EveryoneLeftTimeout

----------------------------------------------------------------------------
(* deployImage *)

\* C39: when deployImage() settles, fs.unlink has been called for every
\* temporary kubeconfig file that was written in full, whichever way the
\* try block was left.
C39_TempFileUnlinked ==
    dpc \in {"resolved", "rejected"} => unlinks = writes

\* Two calls wrote their file; the second left the try block by an exception and
\* rejected; fs.unlink was called for both files and none is left on disk.
C39_Witness ==
    /\ dpc = "rejected" /\ thrown /\ deploys = 2
    /\ writes = 2 /\ unlinks = 2 /\ tempFiles = 0

====
